---- MODULE Spec2Model ----
(***************************************************************************)
(* A model of the Mus rules engine: the card model (cards.py), the hand    *)
(* evaluators (hand_evaluation.py) and BettingRound, MusGame (game_logic)  *)
(* A card is a number 0..39: suit = c \div 10, rank index = c % 10, in the *)
(* order Deck.__init__ builds the deck.                                    *)
(***************************************************************************)
EXTENDS Integers, Sequences, FiniteSets, TLC

VARIABLES
  deck,                \* MusGame.deck.cards: sequence of cards
  hands,               \* MusGame.hands: player -> sequence of cards
  discard_pile,        \* MusGame.discard_pile
  current_phase,       \* "deal", "mus", "play", "scoring"
  scores,              \* MusGame.scores: team -> points
  mano,                \* MusGame.mano (None before the deal)
  turn_order,          \* MusGame.turn_order
  play_categories,     \* MusGame.play_categories
  play_results,        \* MusGame.play_results: category -> <<winner, final_bet>>
  ordago_active,       \* MusGame.ordago_active
  ordago_player,       \* MusGame.ordago_player
  covert_signals,      \* MusGame.covert_signals
  intercepted_signals, \* MusGame.intercepted_signals
  br,                  \* the BettingRound object in use
  pc,                  \* position of the running call ("idle" between calls)
  cat,                 \* index of the category the play phase is at
  ridx,                \* index in turn_order of the for loop of the round
  rpass,               \* passes over the turn order started in the round
  ndiscards,           \* perform_discard calls made directly so far
  reshuffled,          \* draw_from_deck has reshuffled the discard pile
  num_players,         \* MusGame.num_players
  target_score,        \* MusGame.target_score
  match_games,         \* MusMatch.match_games
  match_score,         \* MusMatch.match_score: team -> partial games won
  mpc,                 \* position of play_match ("none": no match is run)
  call                 \* the last direct call: its name, arguments and result

vars == <<deck, hands, discard_pile, current_phase, scores, mano, turn_order,
          play_categories, play_results, ordago_active, ordago_player,
          covert_signals, intercepted_signals, br, pc, cat, ridx, rpass,
          ndiscards, reshuffled, num_players, target_score, match_games,
          match_score, mpc, call>>

gameVars == <<deck, hands, discard_pile, current_phase, scores, mano,
              turn_order, play_categories, play_results, ordago_active,
              ordago_player, covert_signals, intercepted_signals,
              num_players, target_score>>

matchVars == <<match_games, match_score, mpc>>

(***************************************************************************)
(* Bounds of the model.                                                    *)
(***************************************************************************)
MaxSeed == 2       \* outcomes of random.shuffle that are explored
MaxDiscards == 7   \* direct perform_discard calls explored
MaxBet == 3        \* raises are explored while current_bet stays <= MaxBet
MaxPasses == 5     \* passes over the turn order explored in one round
MaxDeal == 5       \* Deck.deal is called directly with 0..MaxDeal cards
MaxGames == 2      \* MusMatch is created with match_games in 0..MaxGames
MaxPlayers == 6    \* MusGame is constructed with num_players in 0..MaxPlayers
MaxTarget == 3     \* and target_score in -MaxTarget..MaxTarget or the default

(***************************************************************************)
(* cards.py                                                                *)
(***************************************************************************)
NumRanks == 10
NumSuits == 4
DeckSize == NumSuits * NumRanks

\* RANKS = King, Three, Knight, Jack, Seven, Six, Five, Four, Two, Ace
ORDER == <<9, 9, 8, 7, 6, 5, 4, 3, 2, 2>>
VALUES == <<10, 10, 10, 10, 7, 6, 5, 4, 1, 1>>

rank(c) == c % NumRanks
suit(c) == c \div NumRanks
order(c) == ORDER[rank(c) + 1]
value(c) == VALUES[rank(c) + 1]

\* Deck.__init__: for suit in SUITS for rank in RANKS
NewDeck == [i \in 1..DeckSize |-> i - 1]

Min(a, b) == IF a < b THEN a ELSE b

\* Deck.deal: cards[:n] and cards[n:]; a slice never fails
deal(cards, n) ==
  LET k == Min(n, Len(cards))
  IN  [dealt |-> SubSeq(cards, 1, k), cards |-> SubSeq(cards, k + 1, Len(cards))]

(***************************************************************************)
(* random.shuffle: one of the permutations below, chosen by a seed.        *)
(* Transpose(s, w) lists the elements at positions 0, w, 2w, ... first,    *)
(* then those at 1, w+1, ...; Rotate(s, k) starts the sequence k further.  *)
(***************************************************************************)
Residue(s, w, r) ==
  LET n == Len(s)
      cnt == IF r >= n THEN 0 ELSE (n - r + w - 1) \div w
  IN  [k \in 1..cnt |-> s[r + 1 + (k - 1) * w]]

RECURSIVE TransposeFrom(_, _, _)
TransposeFrom(s, w, r) ==
  IF r >= w THEN <<>> ELSE Residue(s, w, r) \o TransposeFrom(s, w, r + 1)

Transpose(s, w) == TransposeFrom(s, w, 0)

Rotate(s, k) ==
  LET n == Len(s)
  IN  IF n = 0 THEN s ELSE [i \in 1..n |-> s[((i - 1 + k) % n) + 1]]

Strides == <<3, 2, 10, 1, 7>>
Offsets == <<13, 2, 32, 0, 11>>
Seeds == 1..MaxSeed

Shuffle(s, seed) ==
  LET i == ((seed - 1) % Len(Strides)) + 1
  IN  Rotate(Transpose(s, Strides[i]), Offsets[i])

(***************************************************************************)
(* hand_evaluation.py.  Evaluations are tuples, compared as Python does.   *)
(***************************************************************************)
RECURSIVE TupleLT(_, _)
TupleLT(a, b) ==
  IF a = <<>> THEN b # <<>>
  ELSE IF b = <<>> THEN FALSE
  ELSE IF Head(a) # Head(b) THEN Head(a) < Head(b)
  ELSE TupleLT(Tail(a), Tail(b))

orders(hand) == [i \in 1..Len(hand) |-> order(hand[i])]

evaluate_grande(hand) == SortSeq(orders(hand), LAMBDA x, y: x > y)

evaluate_chica(hand) == SortSeq(orders(hand), LAMBDA x, y: x < y)

\* Counter(card.rank for card in hand): the ranks in order of first
\* appearance, and the number of cards of a rank
Count(hand, r) == Cardinality({i \in 1..Len(hand) : rank(hand[i]) = r})

FirstAt(hand, r) == CHOOSE i \in 1..Len(hand) :
  rank(hand[i]) = r /\ \A j \in 1..(i - 1) : rank(hand[j]) # r

RanksWith(hand, n) ==
  LET firsts == SelectSeq([i \in 1..Len(hand) |-> i],
                  LAMBDA i: Count(hand, rank(hand[i])) = n
                            /\ FirstAt(hand, rank(hand[i])) = i)
  IN  [k \in 1..Len(firsts) |-> rank(hand[firsts[k]])]

evaluate_pairs(hand) ==
  LET pairs == RanksWith(hand, 2)
      triples == RanksWith(hand, 3)
      quads == RanksWith(hand, 4)
  IN  IF quads # <<>> THEN <<3, ORDER[quads[1] + 1]>>
      ELSE IF triples # <<>> THEN <<2, ORDER[triples[1] + 1]>>
      ELSE IF Len(pairs) = 2
        THEN <<3>> \o SortSeq([k \in 1..2 |-> ORDER[pairs[k] + 1]],
                              LAMBDA x, y: x > y)
      ELSE IF Len(pairs) = 1 THEN <<1, ORDER[pairs[1] + 1]>>
      ELSE <<0>>

RECURSIVE SumValues(_)
SumValues(hand) ==
  IF hand = <<>> THEN 0 ELSE value(Head(hand)) + SumValues(Tail(hand))

\* juego_ranking ranking a total by its size: 40 is the best
juego_ranking_by_total(total) == total

juego_ranking(total) ==
  CASE total = 31 -> 8
    [] total = 32 -> 7
    [] total = 40 -> 6
    [] total = 37 -> 5
    [] total = 36 -> 4
    [] total = 35 -> 3
    [] total = 34 -> 2
    [] total = 33 -> 1
    [] OTHER -> 0

evaluate_juego(hand) ==
  LET total == SumValues(hand)
  IN  IF total >= 31 THEN <<1, juego_ranking(total)>> ELSE <<0, total>>

(***************************************************************************)
(* SpecEval: evaluate_pairs and evaluate_juego called on any hand of four  *)
(* cards.  The evaluators read the ranks only: the hand of ranks r1..r4    *)
(* has its i-th card in the i-th suit.                                     *)
(***************************************************************************)
Ranks == 0..(NumRanks - 1)

HandOf(rs) == [i \in 1..Len(rs) |-> (i - 1) * NumRanks + rs[i]]

AllHands == {HandOf(<<a, b, c, d>>) : a \in Ranks, b \in Ranks, c \in Ranks, d \in Ranks}

\* one hand for each multiset of four ranks
SortedHands ==
  UNION {UNION {UNION {{HandOf(<<a, b, c, d>>) : d \in c..(NumRanks - 1)} :
                       c \in b..(NumRanks - 1)} :
                b \in a..(NumRanks - 1)} :
         a \in Ranks}

EvalPlays == {"pares", "juego"}

evaluate(play, hand) ==
  IF play = "pares" THEN evaluate_pairs(hand) ELSE evaluate_juego(hand)

(***************************************************************************)
(* game_logic.py: BettingRound.  A recorded bet is None, a number or the   *)
(* string 'ordago'; it is modelled as a record with a kind and a value.    *)
(***************************************************************************)
None == -1
NumPlayers == 4
InitialBet == 1
TargetScore == 40
HandSize == 4

Players == 0..(NumPlayers - 1)

NoBet == [k |-> "none", v |-> 0]
OrdagoBet == [k |-> "ordago", v |-> 0]
IntBet(n) == [k |-> "int", v |-> n]

IndexOf(seq, x) == CHOOSE i \in 1..Len(seq) : seq[i] = x

Range(seq) == {seq[i] : i \in 1..Len(seq)}

\* the first element of seq, in the order of seq, that is in S
FirstIn(seq, S) == seq[CHOOSE i \in 1..Len(seq) :
                         seq[i] \in S /\ \A j \in 1..(i - 1) : seq[j] \notin S]

BettingRound(players, play_type, initial_bet) ==
  [players |-> players,
   play_type |-> play_type,
   current_bet |-> initial_bet,
   bets |-> [p \in Range(players) |-> NoBet],
   active |-> [p \in Range(players) |-> TRUE],
   last_raiser |-> None,
   finished |-> FALSE]

\* player_action without its first test: an inactive player's call is taken
player_action_unguarded(r, player, action, amount) ==
  CASE action = "bet" ->
         [r EXCEPT !.bets[player] = IntBet(r.current_bet), !.last_raiser = player]
    [] action = "raise" ->
         [r EXCEPT !.current_bet = r.current_bet + amount,
                   !.bets[player] = IntBet(r.current_bet + amount),
                   !.last_raiser = player]
    [] action = "call" -> [r EXCEPT !.bets[player] = IntBet(r.current_bet)]
    [] action = "pass" -> [r EXCEPT !.active[player] = FALSE]
    [] action = "ordago" -> [r EXCEPT !.bets[player] = OrdagoBet, !.finished = TRUE]
    [] OTHER -> r

\* player_action recording the amount of a raise as the raiser's bet
player_action_raise_amount(r, player, action, amount) ==
  IF ~r.active[player] THEN r
  ELSE CASE action = "bet" ->
              LET cb == IF r.current_bet = 0 THEN 1 ELSE r.current_bet
              IN  [r EXCEPT !.current_bet = cb,
                            !.bets[player] = IntBet(cb),
                            !.last_raiser = player]
         [] action = "raise" ->
              [r EXCEPT !.current_bet = r.current_bet + amount,
                        !.bets[player] = IntBet(amount),
                        !.last_raiser = player]
         [] action = "call" ->
              [r EXCEPT !.bets[player] = IntBet(r.current_bet)]
         [] action = "pass" ->
              [r EXCEPT !.active[player] = FALSE]
         [] action = "ordago" ->
              [r EXCEPT !.bets[player] = OrdagoBet, !.finished = TRUE]
         [] OTHER -> r

player_action(r, player, action, amount) ==
  IF ~r.active[player] THEN r
  ELSE CASE action = "bet" ->
              LET cb == IF r.current_bet = 0 THEN 1 ELSE r.current_bet
              IN  [r EXCEPT !.current_bet = cb,
                            !.bets[player] = IntBet(cb),
                            !.last_raiser = player]
         [] action = "raise" ->
              [r EXCEPT !.current_bet = r.current_bet + amount,
                        !.bets[player] = IntBet(r.current_bet + amount),
                        !.last_raiser = player]
         [] action = "call" ->
              [r EXCEPT !.bets[player] = IntBet(r.current_bet)]
         [] action = "pass" ->
              [r EXCEPT !.active[player] = FALSE]
         [] action = "ordago" ->
              [r EXCEPT !.bets[player] = OrdagoBet, !.finished = TRUE]
         [] OTHER -> r

active_players(r) == {p \in Range(r.players) : r.active[p]}

active_bets(r) == {r.bets[p].v : p \in {q \in active_players(r) : r.bets[q].k = "int"}}

\* is_round_complete without its second test: only a lone survivor ends it
is_round_complete_survivor(r) == Cardinality(active_players(r)) <= 1

\* is_round_complete without the test that a bet is recorded
is_round_complete_vacuous(r) ==
  IF Cardinality(active_players(r)) <= 1 THEN TRUE
  ELSE Cardinality(active_bets(r)) <= 1

\* is_round_complete asking a bet of every active player
is_round_complete_all_bet(r) ==
  IF Cardinality(active_players(r)) <= 1 THEN TRUE
  ELSE /\ \A p \in active_players(r) : r.bets[p].k = "int"
       /\ Cardinality(active_bets(r)) = 1

\* is_round_complete never reporting a complete round
is_round_complete_never(r) == FALSE

is_round_complete(r) ==
  IF Cardinality(active_players(r)) <= 1 THEN TRUE
  ELSE IF active_bets(r) # {} /\ Cardinality(active_bets(r)) = 1 THEN TRUE
  ELSE FALSE

valid_bets(r) == {p \in Range(r.players) : r.bets[p].k # "none"}

\* get_winner breaking a tie of the highest bet by the lowest player id
get_winner_lowest_id(r) ==
  LET allin == {p \in Range(r.players) : r.bets[p] = OrdagoBet}
      best == {p \in valid_bets(r) :
                 \A q \in valid_bets(r) : r.bets[q].v <= r.bets[p].v}
  IN  IF allin # {} THEN <<FirstIn(r.players, allin), OrdagoBet>>
      ELSE IF valid_bets(r) # {}
        THEN <<CHOOSE p \in best : \A q \in best : p <= q,
               IntBet(r.current_bet)>>
      ELSE <<None, NoBet>>

get_winner(r) ==
  LET allin == {p \in Range(r.players) : r.bets[p] = OrdagoBet}
      best == {p \in valid_bets(r) :
                 \A q \in valid_bets(r) : r.bets[q].v <= r.bets[p].v}
  IN  IF allin # {} THEN <<FirstIn(r.players, allin), OrdagoBet>>
      ELSE IF valid_bets(r) # {}
        THEN <<FirstIn(r.players, best), IntBet(r.current_bet)>>
      ELSE <<None, NoBet>>

\* the round is Complete: finished by an ordago, or the completion rule holds
Complete(r) == r.finished \/ is_round_complete(r)

(***************************************************************************)
(* game_logic.py: MusGame.                                                 *)
(***************************************************************************)
NoRound == BettingRound(<<>>, "", InitialBet)

EmptyMap == [x \in {} |-> 0]

\* MusGame.__init__: the fields of the new object (the deck is shuffled
\* with the given seed)
MusGame(n, t, seed) ==
  [num_players |-> n,
   target_score |-> t,
   deck |-> Shuffle(NewDeck, seed),
   hands |-> [p \in 0..(n - 1) |-> <<>>],
   discard_pile |-> <<>>,
   current_phase |-> "deal",
   scores |-> [x \in {0, 1} |-> 0],
   mano |-> None,
   turn_order |-> <<>>,
   play_categories |-> <<>>,
   play_results |-> EmptyMap,
   ordago_active |-> FALSE,
   ordago_player |-> None,
   covert_signals |-> [p \in 0..(n - 1) |-> 0],
   intercepted_signals |-> [p \in 0..(n - 1) |-> {}]]

\* the game variables hold the object g
IsGame(g) ==
  /\ deck = g.deck
  /\ hands = g.hands
  /\ discard_pile = g.discard_pile
  /\ current_phase = g.current_phase
  /\ scores = g.scores
  /\ mano = g.mano
  /\ turn_order = g.turn_order
  /\ play_categories = g.play_categories
  /\ play_results = g.play_results
  /\ ordago_active = g.ordago_active
  /\ ordago_player = g.ordago_player
  /\ covert_signals = g.covert_signals
  /\ intercepted_signals = g.intercepted_signals
  /\ num_players = g.num_players
  /\ target_score = g.target_score

\* a game created with the default arguments
GameInit(seed) == IsGame(MusGame(NumPlayers, TargetScore, seed))

\* no MusMatch is in use, and no direct call has been made
NoCall == [op |-> "none", args |-> <<>>, ret |-> <<>>]

NoMatch ==
  /\ match_games = 0
  /\ match_score = [x \in {0, 1} |-> 0]
  /\ mpc = "none"
  /\ call = NoCall

\* set_turn_order
TurnOrder(m) == [i \in 1..NumPlayers |-> (m + i - 1) % NumPlayers]

\* draw_from_deck without the reshuffle of the discard pile
draw_from_deck_short(d, dp, n, seed) ==
  LET r == deal(d, n)
  IN  [dealt |-> r.dealt, deck |-> r.cards, discard_pile |-> dp,
       reshuffled |-> FALSE]

\* draw_from_deck leaving the discard pile as it is after reshuffling it
\* into the deck
draw_from_deck_keep_pile(d, dp, n, seed) ==
  LET short == Len(d) < n
      d1 == IF short THEN Shuffle(d \o dp, seed) ELSE d
      r == deal(d1, n)
  IN  [dealt |-> r.dealt, deck |-> r.cards, discard_pile |-> dp,
       reshuffled |-> short]

\* draw_from_deck: the deck, the discard pile and the cards drawn
draw_from_deck(d, dp, n, seed) ==
  LET short == Len(d) < n
      d1 == IF short THEN Shuffle(d \o dp, seed) ELSE d
      dp1 == IF short THEN <<>> ELSE dp
      r == deal(d1, n)
  IN  [dealt |-> r.dealt, deck |-> r.cards, discard_pile |-> dp1,
       reshuffled |-> short]

\* the cards of hand whose 0-based index is (keep = FALSE) or is not
\* (keep = TRUE) in idxs, in hand order
Pick(hand, idxs, keep) ==
  LET sel == SelectSeq([i \in 1..Len(hand) |-> i],
                       LAMBDA i: ((i - 1) \in idxs) # keep)
  IN  [k \in 1..Len(sel) |-> hand[sel[k]]]

\* perform_discard without its last line: the discarded cards are lost
perform_discard_lost(d, h, dp, player, cards_to_discard, seed) ==
  LET new_hand == Pick(h[player], cards_to_discard, TRUE)
      discarded == Pick(h[player], cards_to_discard, FALSE)
      r == draw_from_deck(d, dp, Len(discarded), seed)
  IN  [deck |-> r.deck,
       hands |-> [h EXCEPT ![player] = new_hand \o r.dealt],
       discard_pile |-> r.discard_pile,
       reshuffled |-> r.reshuffled]

perform_discard(d, h, dp, player, cards_to_discard, seed) ==
  LET new_hand == Pick(h[player], cards_to_discard, TRUE)
      discarded == Pick(h[player], cards_to_discard, FALSE)
      r == draw_from_deck(d, dp, Len(discarded), seed)
  IN  [deck |-> r.deck,
       hands |-> [h EXCEPT ![player] = new_hand \o r.dealt],
       discard_pile |-> r.discard_pile \o discarded,
       reshuffled |-> r.reshuffled]

\* the loop of initial_deal: hands[player] = draw_from_deck(4), from player p on
RECURSIVE DealHands(_, _, _, _, _, _)
DealHands(p, d, h, dp, rs, seed) ==
  IF p >= NumPlayers
    THEN [deck |-> d, hands |-> h, discard_pile |-> dp, reshuffled |-> rs]
  ELSE LET r == draw_from_deck(d, dp, HandSize, seed)
       IN  DealHands(p + 1, r.deck, [h EXCEPT ![p] = r.dealt],
                     r.discard_pile, rs \/ r.reshuffled, seed)

\* determine_mano comparing with >=: the last player with the highest order
determine_mano_last(h) ==
  CHOOSE p \in Players :
    /\ \A q \in Players : order(h[q][1]) <= order(h[p][1])
    /\ \A q \in (p + 1)..(NumPlayers - 1) : order(h[q][1]) < order(h[p][1])

\* determine_mano: the first player whose first card has the highest order
determine_mano(h) ==
  CHOOSE p \in Players :
    /\ \A q \in Players : order(h[q][1]) <= order(h[p][1])
    /\ \A q \in 0..(p - 1) : order(h[q][1]) < order(h[p][1])

TotalCards == Len(deck) + Len(discard_pile)
              + Len(hands[0]) + Len(hands[1]) + Len(hands[2]) + Len(hands[3])

(***************************************************************************)
(* The public operations of MusGame on the cards.                          *)
(***************************************************************************)
InitialDeal ==
  /\ pc = "idle"
  /\ mano = None
  /\ \E seed \in (IF Len(deck) < HandSize THEN Seeds ELSE {1}) :
       LET r == DealHands(0, deck, hands, discard_pile, reshuffled, seed)
       IN  /\ deck' = r.deck
           /\ hands' = r.hands
           /\ discard_pile' = r.discard_pile
           /\ reshuffled' = r.reshuffled
           /\ mano' = determine_mano(r.hands)
           /\ turn_order' = TurnOrder(determine_mano(r.hands))
  /\ current_phase' = "mus"
  /\ UNCHANGED <<scores, play_categories, play_results, ordago_active,
                 ordago_player, covert_signals, intercepted_signals,
                 br, pc, cat, ridx, rpass, ndiscards, num_players,
                 target_score, matchVars, call>>

\* the direct calls perform_discard(player, cards_to_discard) explored
DiscardCalls ==
  {<<0, {0, 1, 2, 3}>>, <<1, {0, 1, 2, 3}>>, <<2, {0, 1, 2, 3, 4}>>, <<3, {1, 3}>>}

PerformDiscard(player, idxs) ==
  /\ pc = "idle"
  /\ current_phase = "mus"
  /\ ndiscards < MaxDiscards
  /\ LET n == Len(Pick(hands[player], idxs, FALSE))
     IN  \E seed \in (IF Len(deck) < n THEN Seeds ELSE {1}) :
           LET r == perform_discard(deck, hands, discard_pile, player, idxs, seed)
           IN  /\ deck' = r.deck
               /\ hands' = r.hands
               /\ discard_pile' = r.discard_pile
               /\ reshuffled' = (reshuffled \/ r.reshuffled)
  /\ ndiscards' = ndiscards + 1
  /\ call' = [op |-> "perform_discard", args |-> <<player, idxs>>, ret |-> <<>>]
  /\ UNCHANGED <<current_phase, scores, mano, turn_order, play_categories,
                 play_results, ordago_active, ordago_player, covert_signals,
                 intercepted_signals, br, pc, cat, ridx, rpass, num_players,
                 target_score, matchVars>>

InitCards ==
  /\ \E seed \in Seeds : GameInit(seed)
  /\ br = NoRound
  /\ pc = "idle"
  /\ cat = 0
  /\ ridx = 0
  /\ rpass = 0
  /\ ndiscards = 0
  /\ reshuffled = FALSE
  /\ NoMatch

NextCards ==
  \/ InitialDeal
  \/ \E c \in DiscardCalls : PerformDiscard(c[1], c[2])

SpecCards == InitCards /\ [][NextCards]_vars

(***************************************************************************)
(* SpecDeck: the Deck of a new game, Deck.deal called directly.            *)
(***************************************************************************)
DeckDeal(n) ==
  /\ pc = "idle"
  /\ LET r == deal(deck, n)
     IN  /\ deck' = r.cards
         /\ call' = [op |-> "deal", args |-> <<n>>, ret |-> r.dealt]
  /\ UNCHANGED <<hands, discard_pile, current_phase, scores, mano, turn_order,
                 play_categories, play_results, ordago_active, ordago_player,
                 covert_signals, intercepted_signals, num_players,
                 target_score, br, pc, cat, ridx, rpass, ndiscards, reshuffled,
                 matchVars>>

NextDeck == \E n \in 0..MaxDeal : DeckDeal(n)

SpecDeck == InitCards /\ [][NextDeck]_vars

(***************************************************************************)
(* SpecMano: initial_deal on a deck some cards were dealt from directly,   *)
(* enough cards being left for the four hands.  The deck of the new game   *)
(* is any of the outcomes of random.shuffle listed in Strides and Offsets. *)
(***************************************************************************)
AllSeeds == 1..Len(Strides)

InitMano ==
  /\ \E seed \in AllSeeds : GameInit(seed)
  /\ br = NoRound
  /\ pc = "idle"
  /\ cat = 0
  /\ ridx = 0
  /\ rpass = 0
  /\ ndiscards = 0
  /\ reshuffled = FALSE
  /\ NoMatch

NextMano ==
  \/ InitialDeal
  \/ \E n \in 1..MaxDeal :
       /\ mano = None
       /\ Len(deck) - n >= NumPlayers * HandSize
       /\ DeckDeal(n)

SpecMano == InitMano /\ [][NextMano]_vars

(***************************************************************************)
(* Covert signals.  hit is the set of players whose interception roll      *)
(* (random.random() < signal_intercept_chance) succeeds.                   *)
(***************************************************************************)
\* team0 as one fixed pair of players, whoever the mano is
team0_fixed(m) == {0, 2}

team0(m) == {m, (m + 2) % NumPlayers}
team1(m) == Players \ team0(m)

\* update_covert_signal rolling for every other player, teammate included
update_covert_signal_any(cs, is, m, player, signal, hit) ==
  IF signal = 0
    THEN [covert_signals |-> [cs EXCEPT ![player] = 0],
          intercepted_signals |-> is,
          interceptors |-> {}]
    ELSE LET got == hit \ {player}
         IN  [covert_signals |-> [cs EXCEPT ![player] = signal],
              intercepted_signals |->
                [q \in Players |-> IF q \in got THEN is[q] \cup {player} ELSE is[q]],
              interceptors |-> got]

\* update_covert_signal forgetting the sender's interceptions on signal 0
update_covert_signal_reset(cs, is, m, player, signal, hit) ==
  IF signal = 0
    THEN [covert_signals |-> [cs EXCEPT ![player] = 0],
          intercepted_signals |-> [q \in Players |-> is[q] \ {player}],
          interceptors |-> {}]
    ELSE LET opponents == IF player \in team0(m) THEN team1(m) ELSE team0(m)
             got == opponents \cap hit
         IN  [covert_signals |-> [cs EXCEPT ![player] = signal],
              intercepted_signals |->
                [q \in Players |-> IF q \in got THEN is[q] \cup {player} ELSE is[q]],
              interceptors |-> got]

update_covert_signal(cs, is, m, player, signal, hit) ==
  IF signal = 0
    THEN [covert_signals |-> [cs EXCEPT ![player] = 0],
          intercepted_signals |-> is,
          interceptors |-> {}]
    ELSE LET opponents == IF player \in team0(m) THEN team1(m) ELSE team0(m)
             got == opponents \cap hit
         IN  [covert_signals |-> [cs EXCEPT ![player] = signal],
              intercepted_signals |->
                [q \in Players |-> IF q \in got THEN is[q] \cup {player} ELSE is[q]],
              interceptors |-> got]

\* get_covert_signal returning the second of the two other players to both
get_covert_signal_second(cs, m, player) ==
  LET others == SortSeq([i \in 1..NumPlayers |-> i - 1], LAMBDA x, y: x < y)
  IN  IF player \in team0(m)
        THEN cs[IF player # m THEN m ELSE (m + 2) % NumPlayers]
        ELSE cs[SelectSeq(others, LAMBDA q: q \notin team0(m))[2]]

\* get_covert_signal: the signal of the partner; others is the list of the
\* players outside team0, partner the one of the two that is not player
get_covert_signal(cs, m, player) ==
  LET others == SelectSeq([i \in 1..NumPlayers |-> i - 1],
                          LAMBDA q: q \notin team0(m))
      partner == IF player \in team0(m)
                   THEN (IF player # m THEN m ELSE (m + 2) % NumPlayers)
                   ELSE (IF player = others[2] THEN others[1] ELSE others[2])
  IN  cs[partner]

\* get_intercepted_signals with an entry for every other player
get_intercepted_signals_all(cs, is, player) ==
  [o \in Players \ {player} |-> cs[o]]

\* get_intercepted_signals: the dictionary opponent -> current signal
get_intercepted_signals(cs, is, player) == [o \in is[player] |-> cs[o]]

(***************************************************************************)
(* step in the mus phase.  An action is a dictionary: keys are the keys it *)
(* holds.  A batch is the sequence of (player, action) items of the        *)
(* dictionary step receives, in iteration order.                           *)
(***************************************************************************)
Discard(mask) ==
  [keys |-> {"action_type", "cards"}, action_type |-> 0, cards |-> mask, signal |-> 0]

Signal(v) ==
  [keys |-> {"action_type", "signal"}, action_type |-> 5, cards |-> <<>>, signal |-> v]

\* the indices i of the mask with mask[i] == 1
MaskIndices(mask) == {i - 1 : i \in {j \in 1..Len(mask) : mask[j] = 1}}

\* lines 499-514 for one item: the set of states it can leave
ProcessEntry(g, m, player, action) ==
  LET sig == action.action_type = 5 /\ "signal" \in action.keys
      dis == action.action_type = 0 /\ "cards" \in action.keys
      afterSignal ==
        IF sig
          THEN {LET u == update_covert_signal(g.covert_signals,
                           g.intercepted_signals, m, player, action.signal, hit)
                IN  [g EXCEPT !.covert_signals = u.covert_signals,
                              !.intercepted_signals = u.intercepted_signals,
                              !.info = IF u.interceptors # {}
                                         THEN (player :> <<action.signal, u.interceptors>>) @@ g.info
                                         ELSE g.info]
                : hit \in SUBSET Players}
          ELSE {g}
      Discarded(g1) ==
        LET idxs == MaskIndices(action.cards)
            n == Len(Pick(g1.hands[player], idxs, FALSE))
        IN  {LET r == perform_discard(g1.deck, g1.hands, g1.discard_pile,
                                      player, idxs, seed)
             IN  [g1 EXCEPT !.deck = r.deck, !.hands = r.hands,
                            !.discard_pile = r.discard_pile,
                            !.reshuffled = g1.reshuffled \/ r.reshuffled]
             : seed \in (IF Len(g1.deck) < n THEN Seeds ELSE {1})}
  IN  IF dis THEN UNION {Discarded(g1) : g1 \in afterSignal} ELSE afterSignal

RECURSIVE ProcessBatch(_, _, _, _)
ProcessBatch(batch, i, m, G) ==
  IF i > Len(batch) THEN G
  ELSE ProcessBatch(batch, i + 1, m,
         UNION {ProcessEntry(g, m, batch[i][1], batch[i][2]) : g \in G})

Categories == <<"grande", "chica", "pares", "juego">>

\* the action dictionaries step is called with
Batches ==
  { <<>>,
    << <<0, Discard(<<1, 1, 0, 0>>)>>, <<1, Signal(2)>>,
       <<3, Discard(<<0, 0, 0, 1>>)>> >> }

\* step, current_phase == 'mus', up to the start of the loop of
\* start_play_phase over the categories
StepMus(batch) ==
  /\ pc = "idle"
  /\ current_phase = "mus"
  /\ \E g \in ProcessBatch(batch, 1, mano,
                {[deck |-> deck, hands |-> hands, discard_pile |-> discard_pile,
                  covert_signals |-> covert_signals,
                  intercepted_signals |-> intercepted_signals,
                  reshuffled |-> reshuffled, info |-> EmptyMap]}) :
       /\ deck' = g.deck
       /\ hands' = g.hands
       /\ discard_pile' = g.discard_pile
       /\ covert_signals' = g.covert_signals
       /\ intercepted_signals' = g.intercepted_signals
       /\ reshuffled' = g.reshuffled
       /\ call' = [op |-> "step", args |-> batch, ret |-> g.info]
  /\ current_phase' = "play"
  /\ play_categories' = Categories
  /\ play_results' = EmptyMap
  /\ pc' = "category"
  /\ cat' = 1
  /\ UNCHANGED <<scores, mano, turn_order, ordago_active, ordago_player,
                 br, ridx, rpass, ndiscards, num_players, target_score,
                 matchVars>>

(***************************************************************************)
(* run_detailed_betting_round, one position at a time.                     *)
(***************************************************************************)
\* the simulated actions with 'ordago' among them
SimActions_ordago == {"bet", "raise", "call", "pass", "ordago"}

SimActions == {"bet", "raise", "call", "pass"}
RaiseAmounts == {1, 2}

\* line 275: a new BettingRound for the category the play phase is at
StartRound ==
  /\ pc = "category"
  /\ br' = BettingRound(turn_order, play_categories[cat], InitialBet)
  /\ rpass' = 0
  /\ ridx' = 0
  /\ pc' = "while"
  /\ UNCHANGED <<gameVars, cat, ndiscards, reshuffled, matchVars, call>>

\* line 276: the test of the while loop
WhileTest ==
  /\ pc = "while"
  /\ IF ~br.finished /\ ~is_round_complete(br)
       THEN /\ rpass < MaxPasses
            /\ rpass' = rpass + 1
            /\ ridx' = 1
            /\ pc' = "for"
       ELSE /\ pc' = "winner"
            /\ UNCHANGED <<rpass, ridx>>
  /\ UNCHANGED <<gameVars, br, cat, ndiscards, reshuffled, matchVars, call>>

\* lines 277-288: one iteration of the for loop, its action drawn from acts
ForTurn(acts) ==
  /\ pc = "for"
  /\ IF ridx > Len(turn_order)
       THEN /\ pc' = "while"
            /\ UNCHANGED <<br, ridx>>
       ELSE LET player == turn_order[ridx]
            IN  IF ~br.active[player]
                  THEN /\ ridx' = ridx + 1
                       /\ UNCHANGED <<br, pc>>
                  ELSE \E a \in acts :
                         \E amount \in (IF a = "raise" THEN RaiseAmounts ELSE {0}) :
                           /\ a = "raise" => br.current_bet + amount <= MaxBet
                           /\ br' = player_action(br, player, a, amount)
                           /\ IF is_round_complete(br')
                                THEN pc' = "while" /\ UNCHANGED ridx
                                ELSE ridx' = ridx + 1 /\ UNCHANGED pc
  /\ UNCHANGED <<gameVars, cat, rpass, ndiscards, reshuffled, matchVars, call>>

\* the loop of start_play_phase without its break
play_loop_ends_last(oa, c, plays) == c = Len(plays)

\* the loop of start_play_phase over the categories ends after round c:
\* an ordago breaks it, and the last category exhausts it
play_loop_ends(oa, c, plays) == oa \/ c = Len(plays)

\* lines 290-294 and the rest of the loop body of start_play_phase; the
\* BettingRound is a local of run_detailed_betting_round and is dropped
RoundEnd ==
  /\ pc = "winner"
  /\ LET w == get_winner(br)
         oa == ordago_active \/ w[2] = OrdagoBet
     IN  /\ ordago_active' = oa
         /\ ordago_player' = IF w[2] = OrdagoBet THEN w[1] ELSE ordago_player
         /\ play_results' = (play_categories[cat] :> w) @@ play_results
         /\ IF play_loop_ends(oa, cat, play_categories)
              THEN /\ current_phase' = "scoring"
                   /\ pc' = "scoring"
                   /\ UNCHANGED cat
              ELSE /\ cat' = cat + 1
                   /\ pc' = "category"
                   /\ UNCHANGED current_phase
  /\ br' = NoRound
  /\ ridx' = 0
  /\ rpass' = 0
  /\ UNCHANGED <<deck, hands, discard_pile, scores, mano, turn_order,
                 play_categories, covert_signals, intercepted_signals,
                 ndiscards, reshuffled, num_players, target_score, matchVars,
                 call>>

(***************************************************************************)
(* score_round                                                             *)
(***************************************************************************)
RECURSIVE SumOrders(_)
SumOrders(hand) ==
  IF hand = <<>> THEN 0 ELSE order(Head(hand)) + SumOrders(Tail(hand))

RECURSIVE TeamOrders(_, _)
TeamOrders(h, team) ==
  IF team = {} THEN 0
  ELSE LET p == CHOOSE x \in team : TRUE
       IN  SumOrders(h[p]) + TeamOrders(h, team \ {p})

\* resolve_ordago with >= for >: a tie goes to team 0
resolve_ordago_tie0(h, m) ==
  IF TeamOrders(h, team0(m)) >= TeamOrders(h, team1(m)) THEN 0 ELSE 1

\* the winning team, or None on a tie
resolve_ordago(h, m) ==
  LET score0 == TeamOrders(h, team0(m))
      score1 == TeamOrders(h, team1(m))
  IN  IF score0 > score1 THEN 0 ELSE IF score1 > score0 THEN 1 ELSE None

\* max(evaluations, key=...) and min(...): the first player, in the order
\* 0..N-1, no other player's evaluation is above (below)
FirstMax(ev) ==
  CHOOSE p \in Players :
    /\ \A q \in Players : ~TupleLT(ev[p], ev[q])
    /\ \A q \in 0..(p - 1) : TupleLT(ev[q], ev[p])

FirstMin(ev) ==
  CHOOSE p \in Players :
    /\ \A q \in Players : ~TupleLT(ev[q], ev[p])
    /\ \A q \in 0..(p - 1) : TupleLT(ev[p], ev[q])

best_player(h, play) ==
  CASE play = "grande" -> FirstMax([p \in Players |-> evaluate_grande(h[p])])
    [] play = "chica" -> FirstMin([p \in Players |-> evaluate_chica(h[p])])
    [] play = "pares" -> FirstMax([p \in Players |-> evaluate_pairs(h[p])])
    [] play = "juego" -> FirstMax([p \in Players |-> evaluate_juego(h[p])])
    [] OTHER -> None

\* play_results.get(play, (None, None))[0]
betting_winner(pr, play) ==
  IF play \in DOMAIN pr THEN pr[play][1] ELSE None

\* final_winner without the preference for the betting winner
final_winner_hands(h, pr, play) == best_player(h, play)

\* final_winner without the fallback to the hand evaluation
final_winner_betting(h, pr, play) == betting_winner(pr, play)

final_winner(h, pr, play) ==
  IF betting_winner(pr, play) # None THEN betting_winner(pr, play)
  ELSE best_player(h, play)

\* the points the loop over the categories gives the team
RECURSIVE CategoryPoints(_, _, _, _)
CategoryPoints(h, pr, plays, team) ==
  IF plays = <<>> THEN 0
  ELSE (IF final_winner(h, pr, Head(plays)) \in team THEN 1 ELSE 0)
       + CategoryPoints(h, pr, Tail(plays), team)

round_score(h, m, pr, plays, oa, target, t) ==
  IF oa
    THEN IF resolve_ordago(h, m) = t THEN target ELSE 0
    ELSE CategoryPoints(h, pr, plays, IF t = 0 THEN team0(m) ELSE team1(m))

score_round(sc, h, m, pr, plays, oa, target) ==
  [t \in {0, 1} |-> sc[t] + round_score(h, m, pr, plays, oa, target, t)]

\* score_round leaving the game in the mus phase
ScoreRound_to_mus ==
  /\ pc = "scoring"
  /\ scores' = score_round(scores, hands, mano, play_results, play_categories,
                           ordago_active, target_score)
  /\ current_phase' = "mus"
  /\ pc' = "idle"
  /\ UNCHANGED <<deck, hands, discard_pile, mano, turn_order, play_categories,
                 play_results, ordago_active, ordago_player, covert_signals,
                 intercepted_signals, br, cat, ridx, rpass, ndiscards, reshuffled,
                 num_players, target_score, matchVars, call>>

ScoreRound ==
  /\ pc = "scoring"
  /\ scores' = score_round(scores, hands, mano, play_results, play_categories,
                           ordago_active, target_score)
  /\ current_phase' = "deal"
  /\ pc' = "idle"
  /\ UNCHANGED <<deck, hands, discard_pile, mano, turn_order, play_categories,
                 play_results, ordago_active, ordago_player, covert_signals,
                 intercepted_signals, br, cat, ridx, rpass, ndiscards, reshuffled,
                 num_players, target_score, matchVars, call>>

(***************************************************************************)
(* Spec: one MusGame driven through its constructor, initial_deal and      *)
(* step, the betting simulated as run_detailed_betting_round draws it.     *)
(* SpecOrdago: the same with the rounds' actions drawn from the five       *)
(* actions player_action accepts, 'ordago' included.                       *)
(***************************************************************************)
Init ==
  /\ \E seed \in Seeds : GameInit(seed)
  /\ br = NoRound
  /\ pc = "idle"
  /\ cat = 0
  /\ ridx = 0
  /\ rpass = 0
  /\ ndiscards = 0
  /\ reshuffled = FALSE
  /\ NoMatch

Next ==
  \/ InitialDeal
  \/ \E batch \in Batches : StepMus(batch)
  \/ StartRound
  \/ WhileTest
  \/ ForTurn(SimActions)
  \/ RoundEnd
  \/ ScoreRound

Spec == Init /\ [][Next]_vars

(***************************************************************************)
(* SpecBet: one BettingRound object driven through its methods by any      *)
(* caller: any player, any action, at any time.                            *)
(***************************************************************************)
BetActions == {"bet", "raise", "call", "pass", "ordago"}

\* the amounts a caller passes: the default 0 and a negative one included
Amounts == {-1, 0, 1, 2}

InitBet ==
  /\ GameInit(1)
  /\ \E m \in Players : br = BettingRound(TurnOrder(m), "grande", InitialBet)
  /\ pc = "round"
  /\ cat = 0
  /\ ridx = 0
  /\ rpass = 0
  /\ ndiscards = 0
  /\ reshuffled = FALSE
  /\ NoMatch

PlayerAction(p, a, amount) ==
  /\ pc = "round"
  /\ a = "raise" => (br.current_bet + amount <= MaxBet /\ br.current_bet + amount >= 0)
  /\ br' = player_action(br, p, a, amount)
  /\ UNCHANGED <<gameVars, pc, cat, ridx, rpass, ndiscards, reshuffled,
                 matchVars, call>>

NextBet ==
  \E p \in Players : \E a \in BetActions :
    \E amount \in (IF a = "raise" THEN RaiseAmounts ELSE {0}) :
      PlayerAction(p, a, amount)

SpecBet == InitBet /\ [][NextBet]_vars

(***************************************************************************)
(* SpecAmount: one BettingRound over the turn order of mano 0, its callers *)
(* passing any amount to 'raise'.                                          *)
(***************************************************************************)
InitAmount ==
  /\ GameInit(1)
  /\ br = BettingRound(TurnOrder(0), "grande", InitialBet)
  /\ pc = "round"
  /\ cat = 0
  /\ ridx = 0
  /\ rpass = 0
  /\ ndiscards = 0
  /\ reshuffled = FALSE
  /\ NoMatch

NextAmount ==
  \E p \in Players : \E a \in BetActions :
    \E amount \in (IF a = "raise" THEN Amounts ELSE {0}) :
      PlayerAction(p, a, amount)

SpecAmount == InitAmount /\ [][NextAmount]_vars

NextOrdago ==
  \/ InitialDeal
  \/ \E batch \in Batches : StepMus(batch)
  \/ StartRound
  \/ WhileTest
  \/ ForTurn(BetActions)
  \/ RoundEnd
  \/ ScoreRound

SpecOrdago == Init /\ [][NextOrdago]_vars

(***************************************************************************)
(* SpecMus: one MusGame driven through initial_deal, direct calls of       *)
(* update_covert_signal and one step whose batch holds well-formed and     *)
(* ill-formed entries; every simulated betting action is drawn as 'pass'.  *)
(***************************************************************************)
\* the direct calls update_covert_signal(player, signal) explored
SignalCalls == {<<0, 1>>, <<0, 0>>, <<3, 2>>, <<2, 3>>}

UpdateCovertSignal(player, signal) ==
  /\ pc = "idle"
  /\ mano # None
  /\ \E hit \in SUBSET Players :
       LET u == update_covert_signal(covert_signals, intercepted_signals,
                                     mano, player, signal, hit)
       IN  /\ covert_signals' = u.covert_signals
           /\ intercepted_signals' = u.intercepted_signals
           /\ call' = [op |-> "update_covert_signal",
                       args |-> <<player, signal>>, ret |-> u.interceptors]
  /\ UNCHANGED <<deck, hands, discard_pile, current_phase, scores, mano,
                 turn_order, play_categories, play_results, ordago_active,
                 ordago_player, num_players, target_score, br, pc, cat, ridx,
                 rpass, ndiscards, reshuffled, matchVars>>

\* batches with a mask of 5 and of 2 entries and with signals 7 and -1
MusBatches ==
  { <<>>,
    << <<0, Discard(<<1, 1, 0, 0>>)>>, <<1, Signal(2)>>,
       <<2, Discard(<<1, 0, 0, 0, 1>>)>>, <<3, Signal(7)>> >>,
    << <<1, Discard(<<1, 1>>)>>, <<2, Signal(-1)>>, <<0, Signal(0)>> >> }

QuietActions == {"pass"}

NextMus ==
  \/ InitialDeal
  \/ \E c \in SignalCalls : UpdateCovertSignal(c[1], c[2])
  \/ \E batch \in MusBatches : StepMus(batch)
  \/ StartRound
  \/ WhileTest
  \/ ForTurn(QuietActions)
  \/ RoundEnd
  \/ ScoreRound

SpecMus == Init /\ [][NextMus]_vars

(***************************************************************************)
(* MusMatch.  SpecMatch: play_match on a new MusMatch, one step of its     *)
(* loop and of its partial games at a time.                                *)
(***************************************************************************)
\* the action play_partial_game gives every player
TypedDiscard ==
  [keys |-> {"type", "cards"}, action_type |-> None, cards |-> <<>>, signal |-> 0]

MatchBatch == [i \in 1..NumPlayers |-> <<i - 1, TypedDiscard>>]

\* the simulated actions of a partial game without 'raise': every bet is the
\* initial one, and score_round reads the winner of a play, not its amount
MatchActions == {"bet", "call", "pass"}

\* the game variables become the fields of the new object g
NewGame(g) ==
  /\ deck' = g.deck
  /\ hands' = g.hands
  /\ discard_pile' = g.discard_pile
  /\ current_phase' = g.current_phase
  /\ scores' = g.scores
  /\ mano' = g.mano
  /\ turn_order' = g.turn_order
  /\ play_categories' = g.play_categories
  /\ play_results' = g.play_results
  /\ ordago_active' = g.ordago_active
  /\ ordago_player' = g.ordago_player
  /\ covert_signals' = g.covert_signals
  /\ intercepted_signals' = g.intercepted_signals
  /\ num_players' = g.num_players
  /\ target_score' = g.target_score

\* play_partial_game counting a tie as a win of team 0
partial_game_winner_tie0(sc) == IF sc[0] >= sc[1] THEN 0 ELSE 1

\* lines 565-571: the value play_partial_game returns
partial_game_winner(sc) ==
  IF sc[0] > sc[1] THEN 0 ELSE IF sc[1] > sc[0] THEN 1 ELSE None

\* line 585
overall_winner(ms, mg) == IF ms[0] >= mg THEN 0 ELSE 1

InitMatch ==
  /\ GameInit(1)
  /\ br = NoRound
  /\ pc = "idle"
  /\ cat = 0
  /\ ridx = 0
  /\ rpass = 0
  /\ ndiscards = 0
  /\ reshuffled = FALSE
  /\ match_games \in 0..MaxGames
  /\ match_score = [x \in {0, 1} |-> 0]
  /\ mpc = "while"
  /\ call = NoCall

\* line 578, the test of the loop of play_match: a new MusGame is made
\* (line 559), or play_match returns (lines 585-587)
MatchWhile ==
  /\ mpc = "while"
  /\ IF match_score[0] < match_games /\ match_score[1] < match_games
       THEN /\ \E seed \in Seeds : NewGame(MusGame(num_players, target_score, seed))
            /\ mpc' = "game"
            /\ UNCHANGED call
       ELSE /\ mpc' = "done"
            /\ call' = [op |-> "play_match", args |-> <<>>,
                        ret |-> <<overall_winner(match_score, match_games),
                                  match_score>>]
            /\ UNCHANGED gameVars
  /\ UNCHANGED <<match_games, match_score, br, pc, cat, ridx, rpass, ndiscards,
                 reshuffled>>

\* lines 565-571 and 579-584: the partial game is over, its winner counted
MatchGameEnd ==
  /\ mpc = "game"
  /\ pc = "idle"
  /\ current_phase = "deal"
  /\ mano # None
  /\ LET winner == partial_game_winner(scores)
     IN  match_score' = IF winner # None
                          THEN [match_score EXCEPT ![winner] = @ + 1]
                          ELSE match_score
  /\ mpc' = "while"
  /\ UNCHANGED <<gameVars, match_games, br, pc, cat, ridx, rpass, ndiscards,
                 reshuffled, call>>

NextMatch ==
  \/ MatchWhile
  \/ mpc = "game" /\ InitialDeal
  \/ mpc = "game" /\ StepMus(MatchBatch)
  \/ mpc = "game" /\ StartRound
  \/ mpc = "game" /\ WhileTest
  \/ mpc = "game" /\ ForTurn(MatchActions)
  \/ mpc = "game" /\ RoundEnd
  \/ mpc = "game" /\ ScoreRound
  \/ MatchGameEnd

SpecMatch == InitMatch /\ [][NextMatch]_vars

(***************************************************************************)
(* SpecLive: the game of Spec with a running call of step going on.  What  *)
(* step runs before it returns, the statements of start_play_phase,        *)
(* run_detailed_betting_round and score_round, follow one another without  *)
(* waiting for anything; the calls of initial_deal and step themselves are *)
(* up to the caller.  The simulated actions are those of MatchActions.     *)
(***************************************************************************)
InsideStep ==
  \/ StartRound
  \/ WhileTest
  \/ ForTurn(MatchActions)
  \/ RoundEnd
  \/ ScoreRound

NextLive ==
  \/ InitialDeal
  \/ \E batch \in Batches : StepMus(batch)
  \/ InsideStep

SpecLive == Init /\ [][NextLive]_vars /\ WF_vars(InsideStep)

(***************************************************************************)
(* SpecEval: the call in `call' starts with its arguments chosen, then the *)
(* evaluator is applied to them.                                           *)
(***************************************************************************)
InitEval ==
  /\ GameInit(1)
  /\ br = NoRound
  /\ pc = "idle"
  /\ cat = 0
  /\ ridx = 0
  /\ rpass = 0
  /\ ndiscards = 0
  /\ reshuffled = FALSE
  /\ match_games = 0
  /\ match_score = [x \in {0, 1} |-> 0]
  /\ mpc = "none"
  /\ \E play \in EvalPlays, hand \in AllHands :
       call = [op |-> "called", args |-> <<play, hand>>, ret |-> <<>>]

Evaluate ==
  /\ call.op = "called"
  /\ call' = [op |-> "evaluate", args |-> call.args,
              ret |-> evaluate(call.args[1], call.args[2])]
  /\ UNCHANGED <<gameVars, matchVars, br, pc, cat, ridx, rpass, ndiscards,
                 reshuffled>>

NextEval == Evaluate

SpecEval == InitEval /\ [][NextEval]_vars

(***************************************************************************)
(* SpecConfig: the constructor of MusGame called with any configuration.   *)
(***************************************************************************)
ConfigPlayers == 0..MaxPlayers
ConfigTargets == ((0 - MaxTarget)..MaxTarget) \cup {TargetScore}

\* the call MusGame(num_players=n, target_score=t) and what it gives back:
\* __init__ has no raise statement, so it always gives a game
ConstructorCall(n, t) == [op |-> "MusGame", args |-> <<n, t>>, ret |-> "game"]

InitConfig ==
  /\ \E n \in ConfigPlayers, t \in ConfigTargets, seed \in Seeds :
       /\ IsGame(MusGame(n, t, seed))
       /\ call = ConstructorCall(n, t)
  /\ br = NoRound
  /\ pc = "idle"
  /\ cat = 0
  /\ ridx = 0
  /\ rpass = 0
  /\ ndiscards = 0
  /\ reshuffled = FALSE
  /\ match_games = 0
  /\ match_score = [x \in {0, 1} |-> 0]
  /\ mpc = "none"

\* one more call of the constructor
Construct(n, t) ==
  /\ \E seed \in Seeds : NewGame(MusGame(n, t, seed))
  /\ call' = ConstructorCall(n, t)
  /\ UNCHANGED <<br, pc, cat, ridx, rpass, ndiscards, reshuffled, matchVars>>

NextConfig == \E n \in ConfigPlayers, t \in ConfigTargets : Construct(n, t)

SpecConfig == InitConfig /\ [][NextConfig]_vars

(***************************************************************************)
(* The claims.                                                             *)
(***************************************************************************)

\* C1: card conservation.  After the constructor and after every
\* initial_deal and perform_discard call, reshuffles included, the deck,
\* the discard pile and the hands together hold 40 cards.
C1_CardConservation == TotalCards = DeckSize

\* a discard whose replacement draw reshuffled the discard pile into the deck
C1_Witness ==
  /\ reshuffled
  /\ ndiscards > 0
  /\ Len(discard_pile) > 0
  /\ TotalCards = DeckSize

\* C2: immediately after an active player's 'ordago' the round is Complete
\* and get_winner returns that player with outcome 'ordago'.
C2_OrdagoShortCircuit ==
  [][\A p \in Players :
       (br.active[p] /\ br' = player_action(br, p, "ordago", 0))
         => (Complete(br') /\ get_winner(br') = <<p, OrdagoBet>>)]_vars

\* C3: a round driven by run_detailed_betting_round never starts more than
\* N passes over the turn order, and leaves its loop Complete.
C3_RoundTerminates ==
  /\ rpass <= NumPlayers
  /\ pc = "winner" => Complete(br)

\* a round that took a pass over the turn order and ended on a raise
C3_Witness ==
  /\ pc = "winner"
  /\ rpass > 0
  /\ br.current_bet > InitialBet
  /\ Complete(br)

\* C4: when every player but one has passed and nothing else was done, the
\* round is Complete and get_winner returns the remaining active player.
C4_SingleSurvivorWins ==
  (/\ pc = "round"
   /\ Cardinality(active_players(br)) = 1
   /\ \A p \in Players : br.bets[p] = NoBet
   /\ ~br.finished)
    => (Complete(br) /\ get_winner(br)[1] \in active_players(br))

ScoredOnce == pc = "idle" /\ current_phase = "deal" /\ mano # None

\* C5: after initial_deal and one step without ordago, the two scores sum
\* to 4: one point for each category.
C5_FourPoints ==
  (ScoredOnce /\ ~ordago_active) => scores[0] + scores[1] = Len(Categories)

\* a scored game in which no category had a betting winner
C5_Witness ==
  /\ ScoredOnce
  /\ ~ordago_active
  /\ DOMAIN play_results = Range(Categories)
  /\ \A c \in DOMAIN play_results : play_results[c][1] = None
  /\ scores[0] + scores[1] = Len(Categories)

NumResults == Cardinality(DOMAIN play_results)

OrdagoResults == {c \in DOMAIN play_results : play_results[c][2] = OrdagoBet}

\* C6: the rounds run in the order grande, chica, pares, juego; a round
\* that resolves as 'ordago' is the last one run, and scoring follows it;
\* without ordago scoring comes after all four rounds.
C6_PlayOrder ==
  /\ DOMAIN play_results = {Categories[i] : i \in 1..NumResults}
  /\ pc \in {"while", "for", "winner"} =>
       /\ NumResults < Len(Categories)
       /\ br.play_type = Categories[NumResults + 1]
       /\ OrdagoResults = {}
  /\ (pc = "scoring" \/ ScoredOnce) =>
       IF OrdagoResults # {}
         THEN OrdagoResults = {Categories[NumResults]}
         ELSE NumResults = Len(Categories)

\* an ordago in grande: scoring is reached with no other category run
C6_Witness ==
  /\ pc = "scoring"
  /\ DOMAIN play_results = {"grande"}
  /\ play_results["grande"][2] = OrdagoBet

\* the sum of the order values of the cards of the two players of a team
OrderSum(team) ==
  LET a == CHOOSE p \in team : TRUE
      b == CHOOSE p \in team : p # a
      S(hand) == order(hand[1]) + order(hand[2]) + order(hand[3]) + order(hand[4])
  IN  S(hands[a]) + S(hands[b])

ManoTeam == {mano, (mano + 2) % NumPlayers}

\* C7: scoring after an ordago gives target_score to the team with the
\* strictly higher order sum and nothing to the other, nothing to either
\* on a tie, and no category points (the scores of a new game are 0).
C7_OrdagoScoring ==
  (ScoredOnce /\ ordago_active) =>
    LET s0 == OrderSum(ManoTeam)
        s1 == OrderSum(Players \ ManoTeam)
    IN  /\ s0 > s1 => (scores[0] = TargetScore /\ scores[1] = 0)
        /\ s1 > s0 => (scores[1] = TargetScore /\ scores[0] = 0)
        /\ s0 = s1 => (scores[0] = 0 /\ scores[1] = 0)

\* an ordago scored on an exact tie of the order sums
C7_Witness ==
  /\ ScoredOnce
  /\ ordago_active
  /\ OrderSum(ManoTeam) = OrderSum(Players \ ManoTeam)
  /\ scores[0] = 0
  /\ scores[1] = 0

ActionTaken == pc = "round" /\ br # BettingRound(br.players, br.play_type, InitialBet)

ActiveRecorded == {p \in Players : br.active[p] /\ br.bets[p].k = "int"}

SameRecorded == \A p, q \in ActiveRecorded : br.bets[p].v = br.bets[q].v

NoOrdago == \A p \in Players : br.bets[p] # OrdagoBet

\* C8 as stated: after an action, ordago aside, the round is complete
\* exactly when at most one player is active or every active player with a
\* recorded non-ordago bet has the same bet.
C8_Original ==
  (ActionTaken /\ NoOrdago) =>
    (is_round_complete(br) <=>
       (Cardinality({p \in Players : br.active[p]}) <= 1 \/ SameRecorded))

\* C8 amended: ... or at least one active player has a recorded non-ordago
\* bet and all such bets are the same.
C8_CompletionRule ==
  ActionTaken =>
    (is_round_complete(br) <=>
       (\/ Cardinality({p \in Players : br.active[p]}) <= 1
        \/ (ActiveRecorded # {} /\ SameRecorded)))

\* two active players hold different recorded bets: not complete
C8_Witness ==
  /\ ActionTaken
  /\ ~SameRecorded
  /\ ~is_round_complete(br)

\* C9: with no ordago recorded and a bet recorded, get_winner returns an
\* active player whose recorded bet is the highest recorded bet.
C9_WinnerActiveHighest ==
  (/\ pc = "round"
   /\ \A p \in Players : br.bets[p] # OrdagoBet
   /\ \E p \in Players : br.bets[p] # NoBet)
    => LET w == get_winner(br)[1]
       IN  /\ w \in Players
           /\ br.active[w]
           /\ br.bets[w].k = "int"
           /\ \A q \in Players :
                br.bets[q].k = "int" => br.bets[q].v <= br.bets[w].v

\* C10: once the round is Complete, a player_action changes none of
\* current_bet, bets, active and last_raiser.
C10_NoActionAfterComplete ==
  [][(pc = "round" /\ Complete(br)) =>
       /\ br'.current_bet = br.current_bet
       /\ br'.bets = br.bets
       /\ br'.active = br.active
       /\ br'.last_raiser = br.last_raiser]_vars

\* C11: an action of a player whose active flag is false changes nothing
\* of the round, whatever the action and the amount.
C11_InactiveNoOp ==
  pc = "round" =>
    \A p \in Players : ~br.active[p] =>
      \A a \in BetActions : \A amount \in Amounts :
        player_action(br, p, a, amount) = br

\* a player has passed in a round where a raised bet stands with another
C11_Witness ==
  /\ pc = "round"
  /\ \E p, q \in Players :
       /\ ~br.active[p]
       /\ br.active[q]
       /\ br.bets[q].k = "int"
       /\ br.current_bet > InitialBet
       /\ player_action(br, p, "raise", 1) = br

\* C12: a raise with an amount <= 0 leaves current_bet, the player's
\* recorded bet and last_raiser as they were.
C12_RaiseRejected ==
  [][\A p \in Players : \A amount \in {x \in Amounts : x <= 0} :
       (br.active[p] /\ br' = player_action(br, p, "raise", amount))
         => /\ br'.current_bet = br.current_bet
            /\ br'.bets[p] = br.bets[p]
            /\ br'.last_raiser = br.last_raiser]_vars

Opponents(a, b) == (a \in ManoTeam) # (b \in ManoTeam)

\* C13: once mano is set, every sender recorded in intercepted_signals[q]
\* is on the other team than q, and every interceptor a call of
\* update_covert_signal or step reports is on the other team than the sender.
C13_InterceptOpponentsOnly ==
  mano # None =>
    /\ \A q \in Players : \A s \in intercepted_signals[q] : Opponents(s, q)
    /\ call.op = "update_covert_signal" =>
         \A q \in call.ret : Opponents(call.args[1], q)
    /\ call.op = "step" =>
         \A s \in DOMAIN call.ret : \A q \in call.ret[s][2] : Opponents(s, q)

\* a direct call was intercepted by both opponents of its sender
C13_Witness ==
  /\ mano # None
  /\ call.op = "update_covert_signal"
  /\ Cardinality(call.ret) = 2
  /\ \A q \in call.ret : call.args[1] \in intercepted_signals[q]

\* C14: no step of the game removes a sender from intercepted_signals[q].
C14_InterceptMonotonic ==
  [][\A q \in Players : intercepted_signals[q] \subseteq intercepted_signals'[q]]_vars

\* a sender was intercepted, has since reset its signal to 0, and the game
\* has been played and scored: the interception is still recorded
C14_Witness ==
  /\ ScoredOnce
  /\ \E q, s \in Players : s \in intercepted_signals[q] /\ covert_signals[s] = 0

\* an entry step is to skip: a mask that has not 4 entries, a signal that
\* is not in 0..3
Malformed(action) ==
  \/ action.action_type = 0 /\ Len(action.cards) # HandSize
  \/ action.action_type = 5 /\ action.signal \notin 0..3

\* C19: a step in the mus phase leaves the hand and the signal of a player
\* whose entry is malformed as they were.
C19_MalformedSkipped ==
  [][(current_phase = "mus" /\ current_phase' = "play") =>
       \A i \in 1..Len(call'.args) :
         Malformed(call'.args[i][2]) =>
           /\ hands'[call'.args[i][1]] = hands[call'.args[i][1]]
           /\ covert_signals'[call'.args[i][1]] = covert_signals[call'.args[i][1]]]_vars

PhaseCycle == {<<"deal", "mus">>, <<"mus", "play">>, <<"play", "scoring">>,
               <<"scoring", "deal">>}

C17_FourCardHands ==
  mano # None => \A p \in Players : Len(hands[p]) = HandSize

\* the deck ran out and a discard drew its replacements after a reshuffle
C17_Witness ==
  /\ mano # None
  /\ reshuffled
  /\ ndiscards = MaxDiscards
  /\ \A p \in Players : Len(hands[p]) = HandSize

\* C18: Deck.deal(n) never returns fewer than n cards.
C18_DealNeverShort ==
  call.op = "deal" => Len(call.ret) = call.args[1]

MatchReturn(positive) ==
  (mpc' = "done" /\ (positive => match_games >= 1)) =>
    LET w == call'.ret[1]
    IN  /\ w \in {0, 1}
        /\ call'.ret[2] = match_score'
        /\ match_score'[w] = match_games
        /\ match_score'[1 - w] < match_games

MatchCount ==
  (mpc = "game" /\ mpc' = "while") =>
    IF scores[0] = scores[1] THEN match_score' = match_score
    ELSE \E t \in {0, 1} : match_score' = [match_score EXCEPT ![t] = @ + 1]

\* C16 as stated: play_match returns with the winner's count equal to
\* match_games and the other count strictly less; a tied partial game
\* changes neither count.
C16_Original == [][MatchReturn(FALSE) /\ MatchCount]_vars

\* C16 amended: the same for match_games >= 1.
C16_MatchResult == [][MatchReturn(TRUE) /\ MatchCount]_vars

\* a match of two wins has returned with the other team at one win
C16_Witness ==
  /\ mpc = "done"
  /\ match_games = MaxGames
  /\ \E w \in {0, 1} : call.ret[1] = w /\ match_score[w] = match_games
                         /\ match_score[1 - w] = match_games - 1

\* C20: a constructor call with num_players other than 4 or target_score
\* not above 0 fails with InvalidConfig: a game is made only from a valid
\* configuration.
C20_ConfigRejected ==
  (call.op = "MusGame" /\ call.ret = "game") =>
    (num_players = NumPlayers /\ target_score > 0)

JuegoTotals == <<31, 32, 40, 37, 36, 35, 34, 33>>

\* hand a of total ta and evaluation ea ranks above hand b when the claimed
\* order of juego says so
JuegoAbove(ta, ea, tb, eb) ==
  /\ (ta >= 31 /\ tb < 31) => TupleLT(eb, ea)
  /\ \A i \in 1..Len(JuegoTotals) :
       ta = JuegoTotals[i] =>
         \A j \in (i + 1)..Len(JuegoTotals) :
           tb = JuegoTotals[j] => TupleLT(eb, ea)

\* C21: evaluate_juego ranks the totals 31, 32, 40, 37, 36, 35, 34, 33
\* strictly in that order, and every hand below 31 under every hand of 31
\* or more: the hand evaluated, against every other hand of four cards.
C21_JuegoRanking ==
  (call.op = "evaluate" /\ call.args[1] = "juego") =>
    LET ta == SumValues(call.args[2])
    IN  \A b \in SortedHands :
          LET tb == SumValues(b)
              eb == evaluate_juego(b)
          IN  /\ JuegoAbove(ta, call.ret, tb, eb)
              /\ JuegoAbove(tb, eb, ta, call.ret)

\* a hand totalling 40 has been evaluated
C21_Witness ==
  /\ call.op = "evaluate"
  /\ call.args[1] = "juego"
  /\ SumValues(call.args[2]) = 40
  /\ call.ret = <<1, 6>>

\* the evaluation of pares as the claim words it
PairsClaimed(hand) ==
  LET rs == {rank(hand[i]) : i \in 1..Len(hand)}
      ofCount(n) == {r \in rs : Count(hand, r) = n}
      ord(R) == ORDER[(CHOOSE r \in R : TRUE) + 1]
      hi(R) == CHOOSE x \in {ORDER[r + 1] : r \in R} :
                 \A y \in {ORDER[r + 1] : r \in R} : y <= x
      lo(R) == CHOOSE x \in {ORDER[r + 1] : r \in R} :
                 \A y \in {ORDER[r + 1] : r \in R} : x <= y
  IN  IF ofCount(4) # {} THEN <<3, ord(ofCount(4)), ord(ofCount(4))>>
      ELSE IF Cardinality(ofCount(2)) = 2
        THEN <<3, hi(ofCount(2)), lo(ofCount(2))>>
      ELSE IF ofCount(3) # {} THEN <<2, ord(ofCount(3))>>
      ELSE IF Cardinality(ofCount(2)) = 1 THEN <<1, ord(ofCount(2))>>
      ELSE <<0>>

\* C22: evaluate_pairs returns category 3 with the two pair orders, sorted
\* descending, for two pairs and for four of a kind ((3, r, r)), (2, r) for
\* three of a kind, (1, r) for one pair and (0) otherwise.
C22_PairsEvaluation ==
  (call.op = "evaluate" /\ call.args[1] = "pares") =>
    call.ret = PairsClaimed(call.args[2])

FirstOrder(p) == order(hands[p][1])

\* C23: after initial_deal the mano is the lowest-indexed of the players
\* whose first card has the highest order, and turn_order is mano, mano+1,
\* ..., mano+N-1 (mod N), a permutation of the players.
C23_ManoAndTurnOrder ==
  mano # None =>
    /\ mano \in Players
    /\ \A q \in Players : FirstOrder(q) <= FirstOrder(mano)
    /\ \A q \in Players : FirstOrder(q) = FirstOrder(mano) => q >= mano
    /\ Len(turn_order) = NumPlayers
    /\ \A i \in 1..NumPlayers : turn_order[i] = (mano + i - 1) % NumPlayers
    /\ Range(turn_order) = Players

\* a deal in which the mano is not player 0 and ties with a later player
C23_Witness ==
  /\ mano # None
  /\ mano > 0
  /\ \E q \in Players : q > mano /\ FirstOrder(q) = FirstOrder(mano)

HandEval(play, p) ==
  CASE play = "grande" -> evaluate_grande(hands[p])
    [] play = "chica" -> evaluate_chica(hands[p])
    [] play = "pares" -> evaluate_pairs(hands[p])
    [] play = "juego" -> evaluate_juego(hands[p])

\* the players a category may be credited to: the betting-round winner if
\* there is one, else the holders of the extremal evaluation
Creditable(play) ==
  IF play_results[play][1] # None THEN {play_results[play][1]}
  ELSE LET ev == [p \in Players |-> HandEval(play, p)]
       IN  IF play = "chica"
             THEN {p \in Players : \A q \in Players : ~TupleLT(ev[q], ev[p])}
             ELSE {p \in Players : \A q \in Players : ~TupleLT(ev[p], ev[q])}

\* C24: without ordago, each category gives its single point to the team
\* of the betting-round winner when there is one, and otherwise to the team
\* of a player with the best hand evaluation (the lowest for chica): the
\* score of team 0 counts the categories that can only go to team 0, and
\* of the others only some that may go to it; team 1 has the other points.
C24_CategoryCredit ==
  (ScoredOnce /\ ~ordago_active) =>
    LET cr == [c \in Range(Categories) |-> Creditable(c)]
        sure == {c \in Range(Categories) : cr[c] \subseteq team0(mano)}
        may == {c \in Range(Categories) : cr[c] \cap team0(mano) # {}}
    IN  /\ Cardinality(sure) <= scores[0]
        /\ scores[0] <= Cardinality(may)
        /\ scores[1] = Len(Categories) - scores[0]

\* a scored game with a category credited to its betting winner against
\* the hand evaluation, and a category without betting winner
C24_Witness ==
  /\ ScoredOnce
  /\ ~ordago_active
  /\ \E c \in Range(Categories) : play_results[c][1] = None
  /\ \E c \in Range(Categories) :
       /\ play_results[c][1] # None
       /\ (play_results[c][1] \in team0(mano)) # (best_player(hands, c) \in team0(mano))

Teammate(p) == CHOOSE q \in Players : q # p /\ ~Opponents(p, q)

\* C25: after the deal get_covert_signal(p) is the current signal of the
\* other member of p's team, and 0 once that teammate has cleared its
\* signal or as long as it has sent none.
C25_PartnerSignal ==
  mano # None =>
    /\ \A p \in Players :
         get_covert_signal(covert_signals, mano, p) = covert_signals[Teammate(p)]
    /\ (call.op = "update_covert_signal" /\ call.args[2] = 0) =>
         get_covert_signal(covert_signals, mano, Teammate(call.args[1])) = 0
    /\ call.op = "none" =>
         \A p \in Players : get_covert_signal(covert_signals, mano, p) = 0

\* a player reads a teammate's signal that differs from the player's own
\* and from both opponents' signals
C25_Witness ==
  /\ mano # None
  /\ \E p \in Players :
       /\ get_covert_signal(covert_signals, mano, p) # 0
       /\ \A q \in Players \ {Teammate(p)} :
            covert_signals[q] # get_covert_signal(covert_signals, mano, p)

\* the senders the last call let p intercept
NewlyIntercepted(c, p) ==
  IF c.op = "update_covert_signal" THEN (IF p \in c.ret THEN {c.args[1]} ELSE {})
  ELSE IF c.op = "step" THEN {s \in DOMAIN c.ret : p \in c.ret[s][2]}
  ELSE {}

\* C26: get_intercepted_signals(p) has one entry for each opponent p has
\* intercepted so far, the earlier ones kept and those of the last call
\* added, and none for anyone else; each entry is the current signal of
\* that opponent.
C26_InterceptedView ==
  [][\A p \in Players :
       LET before == get_intercepted_signals(covert_signals, intercepted_signals, p)
           after == get_intercepted_signals(covert_signals', intercepted_signals', p)
       IN  /\ DOMAIN after = DOMAIN before \cup NewlyIntercepted(call', p)
           /\ \A o \in DOMAIN after :
                after[o] = covert_signals'[o] /\ (p \in team0(mano')) # (o \in team0(mano'))
    ]_vars

\* player 0 was intercepted earlier and has now cleared its signal in a
\* call nobody intercepted: the interceptor reads the signal 0
C26_Witness ==
  /\ call.op = "update_covert_signal"
  /\ call.args = <<0, 0>>
  /\ \E p \in Players :
       /\ 0 \in DOMAIN get_intercepted_signals(covert_signals, intercepted_signals, p)
       /\ get_intercepted_signals(covert_signals, intercepted_signals, p)[0] = 0

\* C27: between the calls of the public operations the phase is 'deal' or
\* 'mus'; a step in the mus phase, whatever its batch, goes through the play
\* phase and one scoring (four points) and returns with the phase 'deal'.
C27_StepRunsToScoring ==
  /\ [](pc = "idle" => current_phase \in {"deal", "mus"})
  /\ [](current_phase \in {"play", "scoring"} => pc # "idle")
  /\ [](ScoredOnce => scores[0] + scores[1] = Len(Categories))
  /\ (pc # "idle") ~> (pc = "idle" /\ current_phase = "deal")

\* a step with the empty batch has returned, the game scored
C27_Witness ==
  /\ ScoredOnce
  /\ call.op = "step"
  /\ call.args = <<>>
  /\ NumResults = Len(Categories)

InRound == pc \in {"while", "for", "winner"}

Bettors == {p \in Range(br.players) : br.bets[p] # NoBet}

Passed == {p \in Range(br.players) : ~br.active[p]}

\* the first k players of the turn order
FirstPlayers(k) == {turn_order[i] : i \in 1..k}

\* C28: in a round run by run_detailed_betting_round only passes come
\* before the one action that is not a pass, which ends the round: at most
\* N-1 actions are taken, the winner is the first player in turn order not
\* to pass, and None when the first N-1 players pass.
C28_FirstBetEndsRound ==
  InRound =>
    /\ Cardinality(Bettors) <= 1
    /\ Cardinality(Bettors) + Cardinality(Passed) <= NumPlayers - 1
    /\ Passed = FirstPlayers(Cardinality(Passed))
    /\ \A p \in Bettors :
         /\ p = turn_order[Cardinality(Passed) + 1]
         /\ is_round_complete(br)
    /\ pc = "winner" =>
         IF Bettors # {} THEN get_winner(br)[1] \in Bettors
         ELSE get_winner(br)[1] = None /\ Passed = FirstPlayers(NumPlayers - 1)

\* a round left after two passes and a raise of the third player
C28_Witness ==
  /\ pc = "winner"
  /\ Cardinality(Passed) = 2
  /\ get_winner(br) = <<turn_order[3], IntBet(InitialBet + 1)>>

Recorded(r) == {p \in Range(r.players) : r.bets[p].k = "int"}

\* C29: as long as no ordago action was taken in a BettingRound (raise
\* amounts being positive), current_bet does not decrease, no recorded bet
\* is above it, and once a bet is recorded the highest recorded bet is
\* current_bet, so the value get_winner returns is the winner's own bet.
C29_CurrentBetIsHighest ==
  [][~br'.finished =>
       /\ br'.current_bet >= br.current_bet
       /\ \A p \in Recorded(br') : br'.bets[p].v <= br'.current_bet
       /\ Recorded(br') # {} =>
            /\ \E p \in Recorded(br') : br'.bets[p].v = br'.current_bet
            /\ get_winner(br')[2] = br'.bets[get_winner(br')[1]]
    ]_vars

\* two players hold recorded bets, the lower one made before a raise
C29_Witness ==
  /\ ~br.finished
  /\ \E p, q \in Recorded(br) :
       /\ br.bets[p].v < br.bets[q].v
       /\ br.bets[q].v = br.current_bet
       /\ get_winner(br) = <<q, br.bets[q]>>

AllCards ==
  deck \o discard_pile \o hands[0] \o hands[1] \o hands[2] \o hands[3]

\* no card is held twice, and every card is one of the 40 of the deck
NoDuplicate ==
  /\ Cardinality(Range(AllCards)) = Len(AllCards)
  /\ Range(AllCards) \subseteq Range(NewDeck)

\* the cards the last call perform_discard(player, idxs) discarded: it put
\* them last on the discard pile, one for each index that was in the hand
LastDiscarded ==
  LET k == Cardinality(call.args[2] \cap (0..(HandSize - 1)))
  IN  SubSeq(discard_pile, Len(discard_pile) - k + 1, Len(discard_pile))

\* C30: the deck, the discard pile and the hands never hold a card twice,
\* a reshuffle of the discard pile into the deck included, and after a call
\* of perform_discard none of the cards it discarded is in the caller's
\* hand.
C30_NoCardTwice ==
  /\ NoDuplicate
  /\ call.op = "perform_discard" =>
       /\ Len(LastDiscarded) = Cardinality(call.args[2] \cap (0..(HandSize - 1)))
       /\ Range(LastDiscarded) \cap Range(hands[call.args[1]]) = {}

\* the discard pile was reshuffled into the deck by a later discard, which
\* drew from it and left its own cards in the discard pile
C30_Witness ==
  /\ reshuffled
  /\ discard_pile # <<>>
  /\ deck # <<>>
  /\ NoDuplicate
  /\ Len(AllCards) = DeckSize

\* C31: a game driven through the constructor, initial_deal and step never
\* has ordago_active set nor an ordago_player, and none of its rounds
\* resolves as 'ordago': the simulated rounds draw only bet, raise, call
\* and pass.
C31_NoOrdagoInSimulation ==
  /\ ~ordago_active
  /\ ordago_player = None
  /\ \A p \in DOMAIN br.bets : br.bets[p] # OrdagoBet
  /\ ~br.finished
  /\ \A c \in DOMAIN play_results : play_results[c][2] # OrdagoBet

\* a scored game whose four rounds all had a betting winner, one of them
\* with a raised bet
C31_Witness ==
  /\ ScoredOnce
  /\ NumResults = Len(Categories)
  /\ \A c \in DOMAIN play_results : play_results[c][1] # None
  /\ \E c \in DOMAIN play_results : play_results[c][2] = IntBet(MaxBet)
  /\ ~ordago_active
  /\ ordago_player = None

\* the pair of players that holds the mano
ManoPair == IF mano % 2 = 0 THEN {0, 2} ELSE {1, 3}

\* the categories that can only be credited to a player of P, and those
\* that may be
PairSure(P) == {c \in Range(Categories) : Creditable(c) \subseteq P}

PairMay(P) == {c \in Range(Categories) : Creditable(c) \cap P # {}}

\* C32: when a partial game of a match is over, scores[0] holds the points
\* of the pair that holds the mano of that game, {0,2} or {1,3}, and
\* match_score[0] grows exactly when that pair has more points than the
\* other one, match_score[1] when it has fewer.
C32_MatchTeamIsManoPair ==
  [][(mpc = "game" /\ mpc' = "while") =>
       /\ Cardinality(PairSure(ManoPair)) <= scores[0]
       /\ scores[0] <= Cardinality(PairMay(ManoPair))
       /\ scores[1] = Len(Categories) - scores[0]
       /\ match_score'[0] = match_score[0] + (IF scores[0] > scores[1] THEN 1 ELSE 0)
       /\ match_score'[1] = match_score[1] + (IF scores[1] > scores[0] THEN 1 ELSE 0)
    ]_vars

\* match_score[0] has just been credited for a partial game whose mano is
\* odd and in which the pair {1,3} won three categories or more
C32_Witness ==
  /\ mpc = "while"
  /\ mano \in {1, 3}
  /\ match_score[0] >= 1
  /\ scores[0] > scores[1]
  /\ Cardinality(PairSure({1, 3})) >= 3

\* the players that hold the highest recorded bet of the round
Highest == {p \in Recorded(br) : \A q \in Recorded(br) : br.bets[q].v <= br.bets[p].v}

\* the number of seats between the first player of the round and p
Seat(p) == (p - br.players[1] + NumPlayers) % NumPlayers

\* C33: when two players or more hold the highest recorded bet and no
\* 'ordago' is recorded, get_winner returns the one of them that sits
\* closest to the first player of the round, whether or not it has passed,
\* together with the current bet.
C33_TieGoesToEarliest ==
  (NoOrdago /\ Cardinality(Highest) >= 2) =>
    LET w == get_winner(br)
    IN  /\ w[1] \in Highest
        /\ \A p \in Highest : Seat(w[1]) <= Seat(p)
        /\ w[2] = IntBet(br.current_bet)

\* a tie in which the winner has passed, another holder of the highest bet
\* is still active, and the winner is not the one with the lowest id
C33_Witness ==
  /\ NoOrdago
  /\ ~br.finished
  /\ Cardinality(Highest) >= 2
  /\ ~br.active[get_winner(br)[1]]
  /\ \E p \in Highest : br.active[p] /\ p < get_winner(br)[1]

====
